---- MODULE Spec2Model ----
(***************************************************************************)
(* State-machine model of the scns-conductor batch scheduler: the          *)
(* scheduler daemon (scheduler/scheduler.py, scheduler/daemon.py), the job *)
(* executor (worker/executor.py with worker/repositories and               *)
(* worker/resources), the API cancel path (api/services/job_service.py),   *)
(* the cleanup strategies (scheduler/cleanup_strategies) and the worker    *)
(* start-up recovery (worker/recovery).                                    *)
(*                                                                         *)
(* The durable store is modelled at commit granularity: one action per     *)
(* database transaction, in the order the code commits them.  The Redis    *)
(* counter resource:allocated_cpus is the variable cache.                  *)
(***************************************************************************)
EXTENDS Integers, FiniteSets, Sequences, TLC

\* ------------------------------------------------------------------ bounds
NJobs == 2
NExec == 2
NWorkers == 2
MaxTokens == 2
MaxEvents == 1
MaxPasses == 1
MaxTimePart == 2
MaxPriority == 3
MaxInterval == 2
WorkerCpus == 4
SmallNeed == 2
MaxNeed == 5

Jobs == 1..NJobs
Execs == 1..NExec
WorkerIds == 1..NWorkers
CpuNeeds == {SmallNeed, MaxNeed}

VARIABLES
    jstate,       \* Job.state per job id ("NONE": no row yet)
    need,         \* Job.allocated_cpus = ntasks_per_node * cpus_per_task
    exit_code,    \* Job.exit_code
    end_time,     \* Job.end_time is not null
    alloc,        \* ResourceAllocation row of the job
    cache,        \* Redis key resource:allocated_cpus: <<n>>, or <<>> when the key is absent
    tokens,       \* dispatch tokens in the work queue, per job id
    workers,      \* worker ids whose worker:<id> key exists
    uncommitted,  \* jobs flushed by the running schedule() but not yet committed
    ex,           \* one execute(job_id) call per executor slot
    events,       \* number of disturbances so far: API cancel, stale-reservation or
                  \* stuck-job cleanup, worker start-up recovery, cache sync or clear
    mgr,          \* the running CleanupStrategyManager.execute_due_strategies call
    tl,           \* one job's time limit, from the submitted string to the wait in _run
    submit_time,  \* Job.submit_time per job id (0: no row yet)
    reg,          \* one WorkerRegistry: its worker:<id> hash, its heartbeat thread
                  \* and its unregister() call
    rm            \* one in-memory ResourceTracker / ResourceManager: its lock, its
                  \* used CPUs and the call each thread is in

vars == <<jstate, need, exit_code, end_time, alloc, cache, tokens, workers,
                   uncommitted, ex, events, mgr, tl, submit_time, reg, rm>>

None == "None"

Terminal == {"COMPLETED", "FAILED", "CANCELLED"}

\* the status a ResourceAllocation row gets when its creator names none
DefaultStatus == "RESERVED"

NoAlloc == [status |-> "NONE", released |-> FALSE, released_time |-> FALSE, cpus |-> 0]

IdleExec == [pc |-> "idle", job |-> 0, err |-> FALSE, exit |-> None,
             promoted |-> FALSE, added |-> 0, removed |-> 0,
             pid_recorded |-> FALSE, signalled |-> FALSE]

\* the strategies create_default_manager registers as enabled
Strategies == {"completed_job_cleanup", "stale_reservation_cleanup", "stuck_job_cleanup"}

\* all the strategies create_default_manager registers
AllStrategies == Strategies \cup {"old_job_cleanup"}

\* _strategy_registry: the order in which auto_register_all registers them
RegistrationOrder ==
    <<"completed_job_cleanup", "stale_reservation_cleanup", "stuck_job_cleanup",
      "old_job_cleanup">>

\* @strategy_metadata(priority=...)
Priority(s) ==
    CASE s = "completed_job_cleanup" -> 1
      [] s = "stale_reservation_cleanup" -> 2
      [] s = "stuck_job_cleanup" -> 3
      [] s = "old_job_cleanup" -> 4

\* @strategy_metadata(depends_on=[...])
DependsOn(s) ==
    IF s \in {"stale_reservation_cleanup", "stuck_job_cleanup"}
    THEN {"completed_job_cleanup"}
    ELSE {}

\* the interval_seconds create_default_manager passes
IntervalSeconds(s) ==
    CASE s = "completed_job_cleanup" -> 5
      [] s = "stale_reservation_cleanup" -> 120
      [] s = "stuck_job_cleanup" -> 3600
      [] s = "old_job_cleanup" -> 86400

\* CleanupStrategyManager.strategies after create_default_manager
DefaultStrategies ==
    [s \in AllStrategies |->
        [priority |-> Priority(s), depends_on |-> DependsOn(s), enabled |-> s \in Strategies,
         interval_seconds |-> IntervalSeconds(s), last_run_time |-> 0]]

\* no execute_due_strategies call in progress
IdleMgr == [strategies |-> DefaultStrategies, order |-> RegistrationOrder,
            todo |-> <<>>, due |-> {}, entered |-> {}, notified |-> {}, failed |-> {},
            results |-> <<>>, now |-> 0, passes |-> 0]

\* Python's None where the other values are integers
NoInt == -1

\* no time limit submitted yet
IdleTl == [pc |-> "idle", days |-> NoInt, parts |-> <<>>, never_exits |-> FALSE,
           ignores_term |-> FALSE, time_limit |-> NoInt, timeout |-> NoInt,
           term |-> FALSE, kill |-> FALSE, exit |-> None,
           state |-> "PENDING", exit_code |-> "", alloc |-> NoAlloc]

\* the fields of a worker:<id> hash: "cpus" stands for the fields only save
\* writes (worker_id, cpus, hostname, registered_at)
WorkerFields == {"cpus", "status", "last_heartbeat"}

\* a WorkerRegistry after __init__: no key, no heartbeat thread, stop event
\* clear, unregister not called
IdleReg == [key |-> {}, ttl |-> FALSE, hb |-> "off", stop |-> FALSE, un |-> "idle"]

\* threads that call one ResourceTracker / ResourceManager object
NThreads == 2
Threads == 1..NThreads

\* the object after __init__ with no unreleased row: threading.Lock() free
\* (owner 0), _used_cpus 0; every thread outside a call (ret: what its last
\* call returned)
IdleRm == [owner |-> 0, used |-> 0,
           pc |-> [t \in Threads |-> "idle"],
           cpus |-> [t \in Threads |-> 0],
           back |-> [t \in Threads |-> "caller"],
           ret |-> [t \in Threads |-> "none"]]

RECURSIVE SumOver(_, _)
SumOver(S, f) ==
    IF S = {} THEN 0
    ELSE LET x == CHOOSE y \in S : TRUE IN f[x] + SumOver(S \ {x}, f)

\* ------------------------------------------------------------ pure helpers

\* _get_allocated_cpus / _query_allocated_cpus_from_db: SUM(allocated_cpus) WHERE NOT released
AllocatedCpusFromDb ==
    SumOver({j \in Jobs : alloc[j].status # "NONE" /\ ~alloc[j].released},
            [j \in Jobs |-> alloc[j].cpus])

\* _get_total_cpus_dynamic: sum of cpus over the worker:* keys
TotalCpusDynamic == Cardinality(workers) * WorkerCpus

\* Settings.TOTAL_CPUS, the configured node capacity
TOTAL_CPUS == 32

\* WorkerRepository.get_total_cpus: sum(w.cpus for w in find_all())
GetTotalCpus == SumOver(workers, [w \in WorkerIds |-> WorkerCpus])

\* ResourceManager.get_total_cpus: the registry's sum, or the configured
\* capacity when the sum is 0
ResourceManagerTotalCpus == IF GetTotalCpus = 0 THEN TOTAL_CPUS ELSE GetTotalCpus

\* redis INCRBY / DECRBY: an absent key counts as 0
CacheAbsent == <<>>
CacheValue == IF cache = CacheAbsent THEN 0 ELSE cache[1]

\* _get_allocated_cpus_cached: the counter, recomputed from the rows on a miss
AllocatedCpusCached == IF cache = CacheAbsent THEN AllocatedCpusFromDb ELSE cache[1]

\* schedule(): available_cpus = total_cpus - allocated_cpus
AvailableCpus == TotalCpusDynamic - AllocatedCpusCached

\* max(0, n) as in get_available_cpus
ClampAtZero(n) == IF n < 0 THEN 0 ELSE n

\* ResourceManager.get_available_cpus: max(0, total - allocated)
GetAvailableCpus == ClampAtZero(ResourceManagerTotalCpus - AllocatedCpusCached)

\* ResourceManager.get_stats()["available_cpus"]: total - allocated
ResourceManagerStatsAvailable == ResourceManagerTotalCpus - AllocatedCpusCached

\* JobScheduler.get_stats()["available_cpus"]: total_cpus - allocated
SchedulerStatsAvailable == TotalCpusDynamic - AllocatedCpusCached

\* f"{exit_code}:0" in update_job_completion
ExitCodeStr(code) ==
    CASE code = "0" -> "0:0"
      [] code = "1" -> "1:0"
      [] code = "-15" -> "-15:0"
      [] OTHER -> "-1:0"

\* a schedule() loop that forgets available_cpus -= required_cpus
RECURSIVE FirstFitNoDecrement(_, _)
FirstFitNoDecrement(j, available) ==
    IF j > NJobs THEN {}
    ELSE IF jstate[j] = "PENDING" /\ available >= need[j]
         THEN {j} \cup FirstFitNoDecrement(j + 1, available)
         ELSE FirstFitNoDecrement(j + 1, available)

\* the loop of schedule(): jobs in submit order, every job that fits is
\* reserved and available shrinks; a job that does not fit is passed over
RECURSIVE FirstFit(_, _)
FirstFit(j, available) ==
    IF j > NJobs THEN {}
    ELSE IF jstate[j] = "PENDING" /\ available >= need[j]
         THEN {j} \cup FirstFit(j + 1, available - need[j])
         ELSE FirstFit(j + 1, available)

\* ------------------------------------------------------------------- Init
Init ==
    /\ jstate = [j \in Jobs |-> "NONE"]
    /\ need = [j \in Jobs |-> 0]
    /\ exit_code = [j \in Jobs |-> ""]
    /\ end_time = [j \in Jobs |-> FALSE]
    /\ alloc = [j \in Jobs |-> NoAlloc]
    /\ cache = <<0>>
    /\ tokens = [j \in Jobs |-> 0]
    /\ workers = {}
    /\ uncommitted = {}
    /\ ex = [e \in Execs |-> IdleExec]
    /\ events = 0
    /\ mgr = IdleMgr
    /\ tl = IdleTl
    /\ submit_time = [j \in Jobs |-> 0]
    /\ reg = IdleReg
    /\ rm = IdleRm

\* ------------------------------------------------------------ API: submit
\* JobService.submit_job at clock reading t: a PENDING row with exit_code ""
\* and submit_time t; ids are monotonic
SubmitJobAt(j, n, t) ==
    /\ jstate[j] = "NONE"
    /\ \A i \in Jobs : i < j => jstate[i] # "NONE"
    /\ jstate' = [jstate EXCEPT ![j] = "PENDING"]
    /\ need' = [need EXCEPT ![j] = n]
    /\ submit_time' = [submit_time EXCEPT ![j] = t]
    /\ UNCHANGED <<exit_code, end_time, alloc, cache, tokens, workers, uncommitted, ex,
                   events, mgr, tl, reg, rm>>

\* submissions that each read a later clock value than the one before
SubmitJob(j, n) == SubmitJobAt(j, n, j)

\* -------------------------------------------------------------- scheduler
\* JobScheduler.schedule up to (not including) session.commit(): reads the
\* capacity and the cache (recomputed and stored on a miss), flushes the
\* reservations, increments the cache and enqueues one token per reserved job
Schedule ==
    /\ uncommitted = {}
    /\ TotalCpusDynamic # 0
    /\ LET chosen == FirstFit(1, AvailableCpus)
       IN /\ uncommitted' = chosen
          /\ cache' = <<AllocatedCpusCached + SumOver(chosen, need)>>
          /\ tokens' = [j \in Jobs |-> IF j \in chosen THEN tokens[j] + 1 ELSE tokens[j]]
    /\ UNCHANGED <<jstate, need, exit_code, end_time, alloc, workers, ex, events, mgr, tl, submit_time, reg, rm>>

\* a reservation that sets the job RUNNING and never adds the row
ReservedAllocationNotAdded(cpus) == NoAlloc

\* _allocate_and_enqueue: ResourceAllocation(job_id, allocated_cpus, node_name,
\* allocation_time, released=False), session.add
ReservedAllocation(cpus) ==
    [status |-> DefaultStatus, released |-> FALSE, released_time |-> FALSE, cpus |-> cpus]

\* session.commit() of schedule(): the RESERVED rows and the RUNNING states
\* become visible to the other processes
ScheduleCommit ==
    /\ uncommitted # {}
    /\ jstate' = [j \in Jobs |-> IF j \in uncommitted THEN "RUNNING" ELSE jstate[j]]
    /\ alloc' = [j \in Jobs |-> IF j \in uncommitted
                                THEN ReservedAllocation(need[j])
                                ELSE alloc[j]]
    /\ uncommitted' = {}
    /\ UNCHANGED <<need, exit_code, end_time, cache, tokens, workers, ex, events, mgr, tl, submit_time, reg, rm>>

\* A schedule() whose worker lookup raises (redis.keys or the parse of a
\* worker record): _get_total_cpus_dynamic returns settings.TOTAL_CPUS from
\* its except branch and the tick goes on with that capacity
ScheduleLookupFails ==
    /\ events < MaxEvents
    /\ events' = events + 1
    /\ uncommitted = {}
    /\ LET chosen == FirstFit(1, TOTAL_CPUS - AllocatedCpusCached)
       IN /\ chosen # {}
          /\ uncommitted' = chosen
          /\ cache' = <<AllocatedCpusCached + SumOver(chosen, need)>>
          /\ tokens' = [j \in Jobs |-> IF j \in chosen THEN tokens[j] + 1 ELSE tokens[j]]
    /\ UNCHANGED <<jstate, need, exit_code, end_time, alloc, workers, ex, mgr, tl, submit_time, reg, rm>>

\* the jobs a tick reserves when every _allocate_and_enqueue returns False
\* after its flush: available_cpus is never decremented
FitsUndecremented(available) ==
    {j \in Jobs : jstate[j] = "PENDING" /\ available >= need[j]}

\* A schedule() whose queue.enqueue raises for every job it tries: the
\* allocation and the RUNNING state are flushed, the cache is incremented,
\* the except branch returns False without a rollback, and the commit at the
\* end of schedule() makes the flushed rows durable; no token exists
ScheduleEnqueueFails ==
    /\ uncommitted = {}
    /\ TotalCpusDynamic # 0
    /\ LET chosen == FitsUndecremented(AvailableCpus)
       IN /\ chosen # {}
          /\ uncommitted' = chosen
          /\ cache' = <<AllocatedCpusCached + SumOver(chosen, need)>>
    /\ UNCHANGED <<jstate, need, exit_code, end_time, alloc, tokens, workers, ex, events, mgr, tl, submit_time, reg, rm>>

\* a schedule() that swallows the flush error and commits what it has: the
\* jobs flushed before and the state of the failed job, whose row is missing
FlushFailureCommitsRest(flushed, failed) == flushed \cup {failed}

\* the jobs of a tick whose RUNNING state becomes durable when the flush of
\* job failed raised: none.  The session is left with a rolled-back
\* transaction, session.commit() raises, and get_session rolls back.
FlushFailureCommits(flushed, failed) == {}

\* A schedule() in which session.flush() raises for job j (the INSERT of the
\* allocation or the UPDATE of the job fails): the jobs reserved before j in
\* this tick had their cache increment and their token, j had neither, and
\* nothing of the tick is committed
ScheduleFlushFails(j) ==
    /\ events < MaxEvents
    /\ events' = events + 1
    /\ uncommitted = {}
    /\ TotalCpusDynamic # 0
    /\ LET chosen == FirstFit(1, AvailableCpus)
           flushed == {i \in chosen : i < j}
           durable == FlushFailureCommits(flushed, j)
       IN /\ j \in chosen
          /\ cache' = <<AllocatedCpusCached + SumOver(flushed, need)>>
          /\ tokens' = [i \in Jobs |-> IF i \in flushed THEN tokens[i] + 1 ELSE tokens[i]]
          /\ jstate' = [i \in Jobs |-> IF i \in durable THEN "RUNNING" ELSE jstate[i]]
          /\ alloc' = [i \in Jobs |-> IF i \in durable \cap flushed
                                      THEN ReservedAllocation(need[i])
                                      ELSE alloc[i]]
    /\ UNCHANGED <<need, exit_code, end_time, workers, uncommitted, ex, mgr, tl, submit_time, reg, rm>>

\* JobScheduler.release_completed: rows with released = False of terminal
\* jobs get released = True and the cache is decremented by their sum
StaleAllocations ==
    {j \in Jobs : alloc[j].status # "NONE" /\ ~alloc[j].released /\ jstate[j] \in Terminal}

ReleaseCompleted ==
    /\ uncommitted = {}
    /\ StaleAllocations # {}
    /\ alloc' = [j \in Jobs |-> IF j \in StaleAllocations
                                THEN [alloc[j] EXCEPT !.released = TRUE, !.released_time = TRUE]
                                ELSE alloc[j]]
    /\ cache' = <<CacheValue - SumOver(StaleAllocations, [j \in Jobs |-> alloc[j].cpus])>>
    /\ UNCHANGED <<jstate, need, exit_code, end_time, tokens, workers, uncommitted, ex,
                   events, mgr, tl, submit_time, reg, rm>>

\* --------------------------------------------------------------- executor
\* execute(): _load_job and the state check.  The read sees committed rows
\* only, so a job reserved by a schedule() that has not committed yet is
\* still PENDING here.  A non-RUNNING job makes execute() return, which
\* runs the finally block (_cleanup).
Load(e, j) ==
    /\ ex[e].pc = "idle"
    /\ \A f \in Execs : f < e => ex[f].pc # "idle"
    /\ tokens[j] > 0
    /\ tokens' = [tokens EXCEPT ![j] = @ - 1]
    /\ ex' = [ex EXCEPT ![e] = [IdleExec EXCEPT !.job = j,
                                  !.pc = IF jstate[j] = "RUNNING" THEN "promote" ELSE "cleanup"]]
    /\ UNCHANGED <<jstate, need, exit_code, end_time, alloc, cache, workers,
                   uncommitted, events, mgr, tl, submit_time, reg, rm>>

\* WorkerRepository.update_allocation_to_allocated: the row of the job,
\* whatever its status, becomes ALLOCATED
UpdateAllocationToAllocated(row) == [row EXCEPT !.status = "ALLOCATED"]

\* WorkerRepository.create_allocation_as_allocated
CreateAllocationAsAllocated(cpus) ==
    [status |-> "ALLOCATED", released |-> FALSE, released_time |-> FALSE, cpus |-> cpus]

\* JobExecutor._mark_resources_allocated (PROMOTE), one transaction
MarkResourcesAllocated(e) ==
    /\ ex[e].pc = "promote"
    /\ LET j == ex[e].job
       IN /\ alloc' = [alloc EXCEPT ![j] =
                          IF alloc[j].status # "NONE"
                          THEN UpdateAllocationToAllocated(alloc[j])
                          ELSE CreateAllocationAsAllocated(need[j])]
    /\ ex' = [ex EXCEPT ![e].pc = "prepare", ![e].promoted = TRUE]
    /\ UNCHANGED <<jstate, need, exit_code, end_time, cache, tokens, workers,
                   uncommitted, events, mgr, tl, submit_time, reg, rm>>

\* _prepare_environment followed by ResourceManagerWrapper._allocate: an
\* exception in PREPARE skips the wrapper; otherwise the cache is
\* incremented by job.allocated_cpus
PrepareAndAllocate(e, ok) ==
    /\ ex[e].pc = "prepare"
    /\ IF ok
       THEN /\ cache' = <<CacheValue + need[ex[e].job]>>
            /\ ex' = [ex EXCEPT ![e].pc = "run", ![e].added = need[ex[e].job]]
       ELSE /\ cache' = cache
            /\ ex' = [ex EXCEPT ![e].pc = "cleanup", ![e].err = TRUE]
    /\ UNCHANGED <<jstate, need, exit_code, end_time, alloc, tokens, workers,
                   uncommitted, events, mgr, tl, submit_time, reg, rm>>

\* a wrapper whose release runs twice (context exit and an explicit call)
WrapperReleaseTwice(tracked) == CacheValue - tracked - tracked

\* ResourceManagerWrapper._release: what the finally of allocate_for_job
\* takes off the cache
WrapperRelease(tracked) == CacheValue - tracked

\* JobExecutor._run inside allocate_for_job, up to the child being started:
\* open() or Popen raises ("raise": the with-block is left and the wrapper
\* releases), or the child runs in its own process group and store_pid is
\* called.  The repository holds two store functions: one only logs the pid
\* ("logged"), one writes it to allocation.process_id ("recorded"), where
\* it replaces the pid an earlier call wrote.
Spawn(e, outcome) ==
    /\ ex[e].pc = "run"
    /\ IF outcome = "raise"
       THEN /\ cache' = <<WrapperRelease(ex[e].added)>>
            /\ ex' = [ex EXCEPT ![e].pc = "cleanup", ![e].removed = ex[e].added,
                                ![e].err = TRUE]
       ELSE /\ cache' = cache
            /\ ex' = [f \in Execs |->
                         IF f = e
                         THEN [ex[f] EXCEPT !.pc = "wait",
                                            !.pid_recorded = (outcome = "recorded")]
                         ELSE IF outcome = "recorded" /\ ex[f].job = ex[e].job
                              THEN [ex[f] EXCEPT !.pid_recorded = FALSE]
                              ELSE ex[f]]
    /\ UNCHANGED <<jstate, need, exit_code, end_time, alloc, tokens, workers,
                   uncommitted, events, mgr, tl, submit_time, reg, rm>>

\* the exit codes process.wait() can return: -15 when the process group got
\* SIGTERM; otherwise the script's own code, or -1 after the time limit
WaitCodes(e) == IF ex[e].signalled THEN {"-15"} ELSE {"0", "1", "-1"}

\* the rest of _run: the child is reaped, the with-block of
\* allocate_for_job is left and the wrapper releases
Wait(e, code) ==
    /\ ex[e].pc = "wait"
    /\ code \in WaitCodes(e)
    /\ cache' = <<WrapperRelease(ex[e].added)>>
    /\ ex' = [ex EXCEPT ![e].pc = "cleanup", ![e].removed = ex[e].added,
                        ![e].exit = code, ![e].pid_recorded = FALSE,
                        ![e].signalled = FALSE]
    /\ UNCHANGED <<jstate, need, exit_code, end_time, alloc, tokens, workers,
                   uncommitted, events, mgr, tl, submit_time, reg, rm>>

\* a release_allocation that sets the status only
ReleaseAllocationNoTime(row) ==
    IF row.status \in {"RESERVED", "ALLOCATED"}
    THEN [row EXCEPT !.status = "RELEASED"]
    ELSE row

\* WorkerRepository.release_allocation: the row with status != RELEASED
ReleaseAllocation(row) ==
    IF row.status \in {"RESERVED", "ALLOCATED"}
    THEN [row EXCEPT !.status = "RELEASED", !.released_time = TRUE]
    ELSE row

\* JobExecutor._release_resources, the first transaction of _cleanup
ReleaseResources(e) ==
    /\ ex[e].pc = "cleanup"
    /\ alloc' = [alloc EXCEPT ![ex[e].job] = ReleaseAllocation(@)]
    /\ ex' = [ex EXCEPT ![e] = IF ex[e].err \/ ex[e].exit # None
                               THEN [@ EXCEPT !.pc = "record"]
                               ELSE IdleExec]
    /\ UNCHANGED <<jstate, need, exit_code, end_time, cache, tokens, workers,
                   uncommitted, events, mgr, tl, submit_time, reg, rm>>

\* WorkerRepository.update_job_completion
UpdateJobCompletion(code) == IF code = "0" THEN "COMPLETED" ELSE "FAILED"

\* the rest of _cleanup: _mark_failed or _update_completion, then execute()
\* returns
RecordOutcome(e) ==
    /\ ex[e].pc = "record"
    /\ LET j == ex[e].job
       IN IF ex[e].err
          THEN /\ jstate' = [jstate EXCEPT ![j] = "FAILED"]
               /\ end_time' = [end_time EXCEPT ![j] = TRUE]
               /\ exit_code' = [exit_code EXCEPT ![j] = "-1:0"]
          ELSE /\ jstate' = [jstate EXCEPT ![j] = UpdateJobCompletion(ex[e].exit)]
               /\ end_time' = [end_time EXCEPT ![j] = TRUE]
               /\ exit_code' = [exit_code EXCEPT ![j] = ExitCodeStr(ex[e].exit)]
    /\ ex' = [ex EXCEPT ![e] = IdleExec]
    /\ UNCHANGED <<need, alloc, cache, tokens, workers, uncommitted, events, mgr, tl, submit_time, reg, rm>>

\* ------------------------------------------------------------ API: cancel
\* the rows cancel_job reads and writes: the job and its allocation
JobRecord(j) ==
    [state |-> jstate[j], exit_code |-> exit_code[j], end_time |-> end_time[j],
     alloc |-> alloc[j]]

\* a cancel_job without the early return for terminal states
CancelRecordNoTerminalCheck(r) ==
    [state |-> "CANCELLED",
     end_time |-> TRUE,
     exit_code |-> IF r.exit_code = "" THEN "-1:15" ELSE r.exit_code,
     alloc |-> IF r.alloc.status # "NONE" /\ ~r.alloc.released
               THEN [r.alloc EXCEPT !.released = TRUE, !.released_time = TRUE]
               ELSE r.alloc]

\* a cancel_job that does not fill in the exit code
CancelRecordNoExitCode(r) ==
    IF r.state \in Terminal
    THEN r
    ELSE [state |-> "CANCELLED",
          end_time |-> TRUE,
          exit_code |-> r.exit_code,
          alloc |-> IF r.alloc.status # "NONE" /\ ~r.alloc.released
                    THEN [r.alloc EXCEPT !.released = TRUE, !.released_time = TRUE]
                    ELSE r.alloc]

\* what cancel_job makes of the rows: nothing for a terminal job (early
\* return); otherwise state CANCELLED, end_time, exit_code "-1:15" unless one
\* is set, and released = True on the row with released = False
CancelRecord(r) ==
    IF r.state \in Terminal
    THEN r
    ELSE [state |-> "CANCELLED",
          end_time |-> TRUE,
          exit_code |-> IF r.exit_code = "" THEN "-1:15" ELSE r.exit_code,
          alloc |-> IF r.alloc.status # "NONE" /\ ~r.alloc.released
                    THEN [r.alloc EXCEPT !.released = TRUE, !.released_time = TRUE]
                    ELSE r.alloc]

\* _kill_job_process: SIGTERM to the process group of allocation.process_id
\* when the row carries a pid and that process is alive
KillTarget(e, j) == ex[e].job = j /\ ex[e].pc = "wait" /\ ex[e].pid_recorded

\* JobService.cancel_job: a terminal job is left alone; otherwise the job
\* becomes CANCELLED and the row with released = False gets released = True.
\* The UPDATE of a job row that a
\* running schedule() has flushed waits for that commit.  A cancel of a
\* terminal job returns before any write: it is a stuttering step.
CancelJob(j) ==
    /\ events < MaxEvents
    /\ events' = events + 1
    /\ jstate[j] \in {"PENDING", "RUNNING"}
    /\ j \notin uncommitted
    /\ LET r == CancelRecord(JobRecord(j))
       IN /\ jstate' = [jstate EXCEPT ![j] = r.state]
          /\ end_time' = [end_time EXCEPT ![j] = r.end_time]
          /\ exit_code' = [exit_code EXCEPT ![j] = r.exit_code]
          /\ alloc' = [alloc EXCEPT ![j] = r.alloc]
    /\ ex' = [e \in Execs |-> IF jstate[j] = "RUNNING" /\ KillTarget(e, j)
                               THEN [ex[e] EXCEPT !.signalled = TRUE]
                               ELSE ex[e]]
    /\ UNCHANGED <<need, cache, tokens, workers, uncommitted, mgr, tl, submit_time, reg, rm>>

\* ----------------------------------------------------- cleanup strategies
\* CleanupRepository.get_completed_jobs_with_unreleased_resources
CompletedUnreleased ==
    {j \in Jobs : alloc[j].status \in {"RESERVED", "ALLOCATED"} /\ jstate[j] \in Terminal}

\* CompletedJobCleanupStrategy._do_cleanup: status RELEASED, released_time
CompletedJobWrites ==
    /\ alloc' = [j \in Jobs |-> IF j \in CompletedUnreleased
                                THEN [alloc[j] EXCEPT !.status = "RELEASED", !.released_time = TRUE]
                                ELSE alloc[j]]
    /\ UNCHANGED <<jstate, exit_code, end_time>>

\* the completed-job strategy run on its own, when it has rows to clean
CompletedJobCleanup ==
    /\ CompletedUnreleased # {}
    /\ CompletedJobWrites
    /\ UNCHANGED <<need, cache, tokens, workers, uncommitted, ex, events, mgr, tl, submit_time, reg, rm>>

\* a query that leaves out the status filter
StaleReservationsAnyStatus(old) ==
    {j \in old : alloc[j].status # "NONE" /\ jstate[j] = "RUNNING"}

\* CleanupRepository.get_stale_reservations; old: the rows whose
\* allocation_time is more than max_age_minutes (10) before now
StaleReservations(old) ==
    {j \in old : alloc[j].status = "RESERVED" /\ jstate[j] = "RUNNING"}

\* StaleReservationCleanupStrategy._do_cleanup / cleanup_stale_reservation
StaleReservationWrites(old) ==
    /\ jstate' = [j \in Jobs |-> IF j \in StaleReservations(old) THEN "FAILED" ELSE jstate[j]]
    /\ end_time' = [j \in Jobs |-> IF j \in StaleReservations(old) THEN TRUE ELSE end_time[j]]
    /\ exit_code' = [j \in Jobs |-> IF j \in StaleReservations(old) THEN "-3:0" ELSE exit_code[j]]
    /\ alloc' = [j \in Jobs |-> IF j \in StaleReservations(old)
                                THEN [alloc[j] EXCEPT !.status = "RELEASED", !.released_time = TRUE]
                                ELSE alloc[j]]

\* the stale-reservation strategy run on its own, when it has rows to clean
StaleReservationCleanup(old) ==
    /\ events < MaxEvents
    /\ events' = events + 1
    /\ StaleReservations(old) # {}
    /\ StaleReservationWrites(old)
    /\ UNCHANGED <<need, cache, tokens, workers, uncommitted, ex, mgr, tl, submit_time, reg, rm>>

\* CleanupRepository.get_stuck_jobs; old: the jobs whose start_time is more
\* than max_age_hours (48) before now
StuckJobs(old) == {j \in old : jstate[j] = "RUNNING"}

\* StuckJobCleanupStrategy._do_cleanup: mark_job_as_failed, release_resource_for_job
StuckJobWrites(old) ==
    /\ jstate' = [j \in Jobs |-> IF j \in StuckJobs(old) THEN "FAILED" ELSE jstate[j]]
    /\ end_time' = [j \in Jobs |-> IF j \in StuckJobs(old) THEN TRUE ELSE end_time[j]]
    /\ exit_code' = [j \in Jobs |-> IF j \in StuckJobs(old) THEN "-2:0" ELSE exit_code[j]]
    /\ alloc' = [j \in Jobs |-> IF j \in StuckJobs(old)
                                THEN ReleaseAllocation(alloc[j]) ELSE alloc[j]]

\* the stuck-job strategy run on its own, when it has jobs to fail
StuckJobCleanup(old) ==
    /\ events < MaxEvents
    /\ events' = events + 1
    /\ StuckJobs(old) # {}
    /\ StuckJobWrites(old)
    /\ UNCHANGED <<need, cache, tokens, workers, uncommitted, ex, mgr, tl, submit_time, reg, rm>>

\* ------------------------------------------------ cleanup strategy manager
\* a registered strategy's priority
PriorityOf(s) == mgr.strategies[s].priority

\* a ready queue that is left in arrival order
SortQueueNoSort(queue) == queue

RECURSIVE SortQueue(_)
\* queue.sort(key=priority): a stable sort, ties stay in arrival order
SortQueue(queue) ==
    IF Len(queue) <= 1 THEN queue
    ELSE LET init == SortQueue(SubSeq(queue, 1, Len(queue) - 1))
             x == queue[Len(queue)]
             k == Cardinality({i \in 1..Len(init) : PriorityOf(init[i]) <= PriorityOf(x)})
         IN SubSeq(init, 1, k) \o <<x>> \o SubSeq(init, k + 1, Len(init))

\* an in-degree that ignores depends_on
InDegreeNoDeps(s) == 0

\* in_degree[name]: the registered strategies among its depends_on
InDegree(s) == Cardinality(mgr.strategies[s].depends_on \cap DOMAIN mgr.strategies)

RECURSIVE TopologicalSort(_, _, _)
\* the while loop of _sort_strategies_by_priority: sort the queue, pop its
\* head, append to the queue the dependants whose in-degree becomes 0
TopologicalSort(queue, in_degree, result) ==
    IF queue = <<>> THEN result
    ELSE LET sorted == SortQueue(queue)
             current == Head(sorted)
             degree == [n \in DOMAIN in_degree |->
                          IF current \in mgr.strategies[n].depends_on
                          THEN in_degree[n] - 1 ELSE in_degree[n]]
             ready == SelectSeq(mgr.order,
                                LAMBDA n : current \in mgr.strategies[n].depends_on
                                           /\ degree[n] = 0)
         IN TopologicalSort(Tail(sorted) \o ready, degree, Append(result, current))

\* _sort_strategies_by_priority
SortStrategiesByPriority ==
    TopologicalSort(SelectSeq(mgr.order, LAMBDA n : InDegree(n) = 0),
                    [n \in DOMAIN mgr.strategies |-> InDegree(n)], <<>>)

\* BaseCleanupStrategy.should_run
ShouldRun(s, now) ==
    /\ mgr.strategies[s].enabled
    /\ now - mgr.strategies[s].last_run_time >= mgr.strategies[s].interval_seconds

\* the points of BaseCleanupStrategy.execute at which an exception can be raised
FailPoints == {"before", "body", "commit", "after"}

\* _do_cleanup of strategy s followed by session.commit()
DoCleanup(s) ==
    CASE s = "completed_job_cleanup" -> CompletedJobWrites
      [] s = "stale_reservation_cleanup" -> \E old \in SUBSET Jobs : StaleReservationWrites(old)
      [] s = "stuck_job_cleanup" -> \E old \in SUBSET Jobs : StuckJobWrites(old)

\* execute_due_strategies(now) up to the loop: the strategies that
\* should_run, in the order of the sorted list
CleanupStart(now) ==
    /\ mgr.todo = <<>>
    /\ mgr.passes < MaxPasses
    /\ LET due == {s \in DOMAIN mgr.strategies : ShouldRun(s, now)}
       IN /\ due # {}
          /\ mgr' = [mgr EXCEPT
                        !.todo = SelectSeq(SortStrategiesByPriority, LAMBDA n : n \in due),
                        !.due = due, !.entered = {}, !.notified = {}, !.failed = {},
                        !.results = <<>>, !.now = now, !.passes = @ + 1]
    /\ UNCHANGED <<jstate, need, exit_code, end_time, alloc, cache, tokens, workers,
                   uncommitted, ex, events, tl, submit_time, reg, rm>>

\* one iteration of the loop of execute_due_strategies: strategy.execute in
\* its own session, mark_run, _notify_observers. fail is the point at which
\* the strategy raises, or "none".
\*   before: before_execute is called outside the try of execute and the
\*           manager has no handler, so get_session rolls back and re-raises
\*           and the call ends: no observer is notified, the rest is not run
\*   body, commit: caught by execute, session.rollback(), error result
\*   after:  caught by execute after session.commit() has succeeded, so the
\*           writes stay although an error result is returned
CleanupExecute(fail) ==
    /\ mgr.todo # <<>>
    /\ LET s == Head(mgr.todo)
       IN /\ IF fail \in {"none", "after"}
             THEN DoCleanup(s)
             ELSE UNCHANGED <<jstate, exit_code, end_time, alloc>>
          /\ mgr' = [mgr EXCEPT
                        !.todo = IF fail = "before" THEN <<>> ELSE Tail(mgr.todo),
                        !.entered = @ \cup {s},
                        !.failed = IF fail = "none" THEN @ ELSE @ \cup {s},
                        !.notified = IF fail = "before" THEN @ ELSE @ \cup {s},
                        !.results = IF fail = "before" THEN @ ELSE Append(@, s),
                        !.strategies[s].last_run_time = IF fail = "before" THEN @ ELSE mgr.now]
    /\ UNCHANGED <<need, cache, tokens, workers, uncommitted, ex, events, tl, submit_time, reg, rm>>

\* ------------------------------------------------- worker start-up recovery
\* OrphanJobRecoveryStrategy._mark_as_failed on the row of the job
OrphanMarkAsFailed(row) ==
    IF row.status # "NONE" THEN [row EXCEPT !.released = TRUE, !.released_time = TRUE] ELSE row

\* OrphanJobRecoveryStrategy.recover_job: the RUNNING jobs it fails, those
\* whose row carries no process_id or the pid of a process that is gone
Orphans == {j \in Jobs : jstate[j] = "RUNNING" /\ ~\E e \in Execs : KillTarget(e, j)}

\* RecoveryManager.recover_on_startup with the default composite strategy,
\* one transaction over all jobs: PendingJobRecovery re-enqueues a token for
\* each PENDING job; OrphanJobRecovery fails every orphan with "-999:0" and
\* sets released = True on its row.
RecoverOnStartup ==
    /\ events < MaxEvents
    /\ events' = events + 1
    /\ uncommitted = {}
    /\ \A j \in Jobs : jstate[j] = "PENDING" => tokens[j] < MaxTokens
    /\ \E j \in Jobs : jstate[j] = "PENDING" \/ j \in Orphans
    /\ tokens' = [j \in Jobs |-> IF jstate[j] = "PENDING" THEN tokens[j] + 1 ELSE tokens[j]]
    /\ jstate' = [j \in Jobs |-> IF j \in Orphans THEN "FAILED" ELSE jstate[j]]
    /\ end_time' = [j \in Jobs |-> IF j \in Orphans THEN TRUE ELSE end_time[j]]
    /\ exit_code' = [j \in Jobs |-> IF j \in Orphans THEN "-999:0" ELSE exit_code[j]]
    /\ alloc' = [j \in Jobs |-> IF j \in Orphans THEN OrphanMarkAsFailed(alloc[j]) ELSE alloc[j]]
    /\ UNCHANGED <<need, cache, workers, uncommitted, ex, mgr, tl, submit_time, reg, rm>>

\* ---------------------------------------------------------- worker registry
\* WorkerRegistry.register / WorkerRepository.save (workers are
\* interchangeable: ids are taken in order)
Register(w) ==
    /\ w \notin workers
    /\ \A v \in WorkerIds : v < w => v \in workers
    /\ workers' = workers \cup {w}
    /\ UNCHANGED <<jstate, need, exit_code, end_time, alloc, cache, tokens,
                   uncommitted, ex, events, mgr, tl, submit_time, reg, rm>>

\* the worker:<id> key expires (TTL) or is deleted by unregister
Expire(w) ==
    /\ w \in workers
    /\ \A v \in WorkerIds : v > w => v \notin workers
    /\ workers' = workers \ {w}
    /\ UNCHANGED <<jstate, need, exit_code, end_time, alloc, cache, tokens,
                   uncommitted, ex, events, mgr, tl, submit_time, reg, rm>>

\* --------------------------------------------------------------- cache sync
\* _init_resource_cache when the scheduler process (re)starts, or its
\* sync_resource_cache / sync_cache_from_db between two ticks: the counter is
\* overwritten with SUM(allocated_cpus) WHERE NOT released
SyncFromDb ==
    /\ uncommitted = {}
    /\ events < MaxEvents
    /\ events' = events + 1
    /\ cache' = <<AllocatedCpusFromDb>>
    /\ UNCHANGED <<jstate, need, exit_code, end_time, alloc, tokens, workers,
                   uncommitted, ex, mgr, tl, submit_time, reg, rm>>

\* ResourceCache.clear: the key is deleted
CacheClear ==
    /\ events < MaxEvents
    /\ events' = events + 1
    /\ cache # CacheAbsent
    /\ cache' = CacheAbsent
    /\ UNCHANGED <<jstate, need, exit_code, end_time, alloc, tokens, workers,
                   uncommitted, ex, mgr, tl, submit_time, reg, rm>>

\* ------------------------------------------------------------ specification
Next ==
    \/ \E j \in Jobs, n \in CpuNeeds : SubmitJob(j, n)
    \/ Schedule
    \/ ScheduleCommit
    \/ ReleaseCompleted
    \/ \E e \in Execs, j \in Jobs : Load(e, j)
    \/ \E e \in Execs : MarkResourcesAllocated(e)
    \/ \E e \in Execs, ok \in BOOLEAN : PrepareAndAllocate(e, ok)
    \/ \E e \in Execs, outcome \in {"raise", "logged", "recorded"} : Spawn(e, outcome)
    \/ \E e \in Execs, code \in {"0", "1", "-1", "-15"} : Wait(e, code)
    \/ \E e \in Execs : ReleaseResources(e)
    \/ \E e \in Execs : RecordOutcome(e)
    \/ \E j \in Jobs : CancelJob(j)
    \/ CompletedJobCleanup
    \/ \E old \in SUBSET Jobs : StaleReservationCleanup(old)
    \/ \E old \in SUBSET Jobs : StuckJobCleanup(old)
    \/ RecoverOnStartup
    \/ \E w \in WorkerIds : Register(w)
    \/ \E w \in WorkerIds : Expire(w)
    \/ SyncFromDb
    \/ CacheClear

Spec == Init /\ [][Next]_vars

\* the system without the cache being overwritten from the rows: no
\* scheduler restart, no resync, no loss of the key
NextNoResync ==
    \/ \E j \in Jobs, n \in CpuNeeds : SubmitJob(j, n)
    \/ Schedule
    \/ ScheduleCommit
    \/ ReleaseCompleted
    \/ \E e \in Execs, j \in Jobs : Load(e, j)
    \/ \E e \in Execs : MarkResourcesAllocated(e)
    \/ \E e \in Execs, ok \in BOOLEAN : PrepareAndAllocate(e, ok)
    \/ \E e \in Execs, outcome \in {"raise", "logged", "recorded"} : Spawn(e, outcome)
    \/ \E e \in Execs, code \in {"0", "1", "-1", "-15"} : Wait(e, code)
    \/ \E e \in Execs : ReleaseResources(e)
    \/ \E e \in Execs : RecordOutcome(e)
    \/ \E j \in Jobs : CancelJob(j)
    \/ CompletedJobCleanup
    \/ \E old \in SUBSET Jobs : StaleReservationCleanup(old)
    \/ \E old \in SUBSET Jobs : StuckJobCleanup(old)
    \/ RecoverOnStartup
    \/ \E w \in WorkerIds : Register(w)
    \/ \E w \in WorkerIds : Expire(w)

SpecNoResync == Init /\ [][NextNoResync]_vars

\* the system with the failures of its collaborators the code has handlers
\* for: a worker lookup that raises, an enqueue that raises, a flush that
\* raises
NextFaults ==
    \/ Next
    \/ ScheduleLookupFails
    \/ ScheduleEnqueueFails
    \/ \E j \in Jobs : ScheduleFlushFails(j)

SpecFaults == Init /\ [][NextFaults]_vars

\* the happy environment: one registered worker, jobs of SmallNeed CPUs whose
\* scripts exit 0, the scheduler daemon and the executors; nobody cancels,
\* no cleanup pass, no restart
HappyInit ==
    /\ jstate = [j \in Jobs |-> "NONE"]
    /\ need = [j \in Jobs |-> 0]
    /\ exit_code = [j \in Jobs |-> ""]
    /\ end_time = [j \in Jobs |-> FALSE]
    /\ alloc = [j \in Jobs |-> NoAlloc]
    /\ cache = <<0>>
    /\ tokens = [j \in Jobs |-> 0]
    /\ workers = {1}
    /\ uncommitted = {}
    /\ ex = [e \in Execs |-> IdleExec]
    /\ events = 0
    /\ mgr = IdleMgr
    /\ tl = IdleTl
    /\ submit_time = [j \in Jobs |-> 0]
    /\ reg = IdleReg
    /\ rm = IdleRm

HappyNext ==
    \/ \E j \in Jobs : SubmitJob(j, SmallNeed)
    \/ Schedule
    \/ ScheduleCommit
    \/ ReleaseCompleted
    \/ \E e \in Execs, j \in Jobs : Load(e, j)
    \/ \E e \in Execs : MarkResourcesAllocated(e)
    \/ \E e \in Execs : PrepareAndAllocate(e, TRUE)
    \/ \E e \in Execs, outcome \in {"logged", "recorded"} : Spawn(e, outcome)
    \/ \E e \in Execs : Wait(e, "0")
    \/ \E e \in Execs : ReleaseResources(e)
    \/ \E e \in Execs : RecordOutcome(e)

\* the daemon loop keeps ticking and the RQ workers keep taking tokens and
\* running execute() to its end
SpecHappy == HappyInit /\ [][HappyNext]_vars /\ WF_vars(HappyNext)

\* the scheduler daemon with one registered worker and a work queue that may
\* refuse a token; the cleanup strategies run when somebody runs them
RepairNext ==
    \/ \E j \in Jobs : SubmitJob(j, SmallNeed)
    \/ Schedule
    \/ ScheduleEnqueueFails
    \/ ScheduleCommit
    \/ ReleaseCompleted
    \/ \E e \in Execs, j \in Jobs : Load(e, j)
    \/ \E e \in Execs : MarkResourcesAllocated(e)
    \/ \E e \in Execs : PrepareAndAllocate(e, TRUE)
    \/ \E e \in Execs, outcome \in {"logged", "recorded"} : Spawn(e, outcome)
    \/ \E e \in Execs : Wait(e, "0")
    \/ \E e \in Execs : ReleaseResources(e)
    \/ \E e \in Execs : RecordOutcome(e)
    \/ CompletedJobCleanup
    \/ \E old \in SUBSET Jobs : StaleReservationCleanup(old)

\* SchedulerDaemon.run loops over schedule() and release_completed(); the RQ
\* workers keep taking tokens and run execute() to its end.  Nothing in the
\* daemon calls the cleanup manager.
DaemonTick == Schedule \/ ScheduleEnqueueFails \/ ScheduleCommit \/ ReleaseCompleted

ExecutorStep ==
    \/ \E e \in Execs, j \in Jobs : Load(e, j)
    \/ \E e \in Execs : MarkResourcesAllocated(e)
    \/ \E e \in Execs : PrepareAndAllocate(e, TRUE)
    \/ \E e \in Execs, outcome \in {"logged", "recorded"} : Spawn(e, outcome)
    \/ \E e \in Execs : Wait(e, "0")
    \/ \E e \in Execs : ReleaseResources(e)
    \/ \E e \in Execs : RecordOutcome(e)

SpecRepair ==
    HappyInit /\ [][RepairNext]_vars /\ WF_vars(DaemonTick) /\ WF_vars(ExecutorStep)

\* the times at which one more of the default strategies becomes due
CleanupTimes == {IntervalSeconds(s) : s \in Strategies}

\* the fault-free run with API cancels and calls of execute_due_strategies in
\* which a strategy may raise at any point of its execution
CleanupNext ==
    \/ HappyNext
    \/ \E j \in Jobs : CancelJob(j)
    \/ \E now \in CleanupTimes : CleanupStart(now)
    \/ \E fail \in FailPoints \cup {"none"} : CleanupExecute(fail)

SpecCleanup == HappyInit /\ [][CleanupNext]_vars

\* ------------------------------------------- manager with any registration
\* the metadata and settings a registered strategy can have: a priority, no
\* dependency or one (on itself, on another registered strategy, or on
\* "old_job_cleanup", which is then not registered), disabled or enabled
\* with an interval
StrategySettings ==
    {m \in [priority : 1..MaxPriority,
            depends_on : {{}} \cup {{d} : d \in AllStrategies},
            enabled : BOOLEAN,
            interval_seconds : 1..MaxInterval,
            last_run_time : {0}] : m.enabled \/ m.interval_seconds = 1}

\* a manager on which three strategies were registered with any settings
SortInit ==
    /\ jstate = [j \in Jobs |-> "NONE"]
    /\ need = [j \in Jobs |-> 0]
    /\ exit_code = [j \in Jobs |-> ""]
    /\ end_time = [j \in Jobs |-> FALSE]
    /\ alloc = [j \in Jobs |-> NoAlloc]
    /\ cache = <<0>>
    /\ tokens = [j \in Jobs |-> 0]
    /\ workers = {}
    /\ uncommitted = {}
    /\ ex = [e \in Execs |-> IdleExec]
    /\ events = 0
    /\ tl = IdleTl
    /\ submit_time = [j \in Jobs |-> 0]
    /\ reg = IdleReg
    /\ rm = IdleRm
    /\ \E registered \in [Strategies -> StrategySettings] :
          mgr = [IdleMgr EXCEPT !.strategies = registered,
                                !.order = SubSeq(RegistrationOrder, 1, 3)]

\* calls of execute_due_strategies in which no strategy raises
SortNext ==
    \/ \E now \in 1..MaxInterval : CleanupStart(now)
    \/ CleanupExecute("none")

SpecSort == SortInit /\ [][SortNext]_vars

\* -------------------------------------------- submissions at the same time
\* the clock readings job j can get: that of the submission before it (the
\* clock has not advanced between the two default_factory calls) or the next
SubmitTimes(j) == IF j = 1 THEN {1} ELSE {submit_time[j - 1], submit_time[j - 1] + 1}

\* what query(Job).filter(state == PENDING).order_by(Job.submit_time).all()
\* can return: the PENDING jobs in ascending submit_time; the order of rows
\* with equal submit_time is the database's choice
PendingOrders ==
    LET pending == {j \in Jobs : jstate[j] = "PENDING"}
    IN {o \in [1..Cardinality(pending) -> pending] :
           /\ \A a, b \in DOMAIN o : a # b => o[a] # o[b]
           /\ \A a, b \in DOMAIN o : a < b => submit_time[o[a]] <= submit_time[o[b]]}

RECURSIVE FirstFitOrdered(_, _, _)
\* the loop of schedule() over pending_jobs from position k on
FirstFitOrdered(pending_jobs, k, available) ==
    IF k > Len(pending_jobs) THEN {}
    ELSE LET j == pending_jobs[k]
         IN IF available >= need[j]
            THEN {j} \cup FirstFitOrdered(pending_jobs, k + 1, available - need[j])
            ELSE FirstFitOrdered(pending_jobs, k + 1, available)

\* JobScheduler.schedule up to session.commit(), with the rows in the order
\* the query returned them
ScheduleOrdered(pending_jobs) ==
    /\ uncommitted = {}
    /\ TotalCpusDynamic # 0
    /\ pending_jobs \in PendingOrders
    /\ LET chosen == FirstFitOrdered(pending_jobs, 1, AvailableCpus)
       IN /\ uncommitted' = chosen
          /\ cache' = <<AllocatedCpusCached + SumOver(chosen, need)>>
          /\ tokens' = [j \in Jobs |-> IF j \in chosen THEN tokens[j] + 1 ELSE tokens[j]]
    /\ UNCHANGED <<jstate, need, exit_code, end_time, alloc, workers, ex, events, mgr, tl,
                   submit_time, reg, rm>>

\* the API and the scheduler daemon with submissions that can fall on the
\* same clock reading; workers come and go, jobs are cancelled
TiesNext ==
    \/ \E j \in Jobs, n \in CpuNeeds : \E t \in SubmitTimes(j) : SubmitJobAt(j, n, t)
    \/ \E o \in PendingOrders : ScheduleOrdered(o)
    \/ ScheduleCommit
    \/ \E j \in Jobs : CancelJob(j)
    \/ \E w \in WorkerIds : Register(w)
    \/ \E w \in WorkerIds : Expire(w)

SpecTies == Init /\ [][TiesNext]_vars

\* ------------------------------------------- one worker's registry record
\* redis HSET key field value: the field is added to the hash; a hash that
\* did not exist is created, without a TTL
RedisHset(field) == [reg EXCEPT !.key = @ \cup {field},
                           !.ttl = IF reg.key = {} THEN FALSE ELSE @]

\* redis EXPIRE key ttl: an existing key gets the TTL
RedisExpire(r) == [r EXCEPT !.ttl = (r.key # {})]

\* WorkerRepository.get_total_cpus over this worker's key: find_all parses
\* the hash with _parse_worker_info, which returns None (the worker is left
\* out) when datetime.fromisoformat fails on a missing registered_at
RegistryTotalCpus == IF "cpus" \in reg.key THEN WorkerCpus ELSE 0

\* WorkerRegistry.register / WorkerRepository.save: HSET of all the fields,
\* EXPIRE
RegistryRegister ==
    /\ reg.un = "idle" /\ reg.hb = "off"
    /\ reg' = [reg EXCEPT !.key = WorkerFields, !.ttl = TRUE]
    /\ UNCHANGED <<jstate, need, exit_code, end_time, alloc, cache, tokens, workers,
                   uncommitted, ex, events, mgr, tl, submit_time, rm>>

\* WorkerRegistry.start_heartbeat: the stop event is cleared and the thread
\* started
StartHeartbeat ==
    /\ reg.un = "idle" /\ reg.hb = "off" /\ reg.key # {}
    /\ reg' = [reg EXCEPT !.hb = "check", !.stop = FALSE]
    /\ UNCHANGED <<jstate, need, exit_code, end_time, alloc, cache, tokens, workers,
                   uncommitted, ex, events, mgr, tl, submit_time, rm>>

\* _heartbeat_loop: while not self._stop_event.is_set()
HeartbeatCheck ==
    /\ reg.hb = "check"
    /\ reg' = [reg EXCEPT !.hb = IF reg.stop THEN "stopped" ELSE "hset"]
    /\ UNCHANGED <<jstate, need, exit_code, end_time, alloc, cache, tokens, workers,
                   uncommitted, ex, events, mgr, tl, submit_time, rm>>

\* update_heartbeat, first command: HSET key last_heartbeat now; when it
\* raises, the loop logs the failure and goes to its wait
HeartbeatHset(ok) ==
    /\ reg.hb = "hset"
    /\ reg' = IF ok THEN [RedisHset("last_heartbeat") EXCEPT !.hb = "expire"]
                    ELSE [reg EXCEPT !.hb = "wait"]
    /\ UNCHANGED <<jstate, need, exit_code, end_time, alloc, cache, tokens, workers,
                   uncommitted, ex, events, mgr, tl, submit_time, rm>>

\* update_heartbeat, second command: EXPIRE key ttl
HeartbeatExpire(ok) ==
    /\ reg.hb = "expire"
    /\ reg' = IF ok THEN [RedisExpire(reg) EXCEPT !.hb = "wait"]
                    ELSE [reg EXCEPT !.hb = "wait"]
    /\ UNCHANGED <<jstate, need, exit_code, end_time, alloc, cache, tokens, workers,
                   uncommitted, ex, events, mgr, tl, submit_time, rm>>

\* self._stop_event.wait(self.heartbeat_interval) returns
HeartbeatWait ==
    /\ reg.hb = "wait"
    /\ reg' = [reg EXCEPT !.hb = "check"]
    /\ UNCHANGED <<jstate, need, exit_code, end_time, alloc, cache, tokens, workers,
                   uncommitted, ex, events, mgr, tl, submit_time, rm>>

\* WorkerRegistry.update_status / WorkerRepository.update_status: HSET key
\* status, called by the running worker
UpdateStatus ==
    /\ reg.un = "idle" /\ reg.hb # "off"
    /\ reg' = RedisHset("status")
    /\ UNCHANGED <<jstate, need, exit_code, end_time, alloc, cache, tokens, workers,
                   uncommitted, ex, events, mgr, tl, submit_time, rm>>

\* the TTL of the key runs out: no refresh for 60 seconds
KeyExpires ==
    /\ reg.key # {} /\ reg.ttl
    /\ reg' = [reg EXCEPT !.key = {}, !.ttl = FALSE]
    /\ UNCHANGED <<jstate, need, exit_code, end_time, alloc, cache, tokens, workers,
                   uncommitted, ex, events, mgr, tl, submit_time, rm>>

\* unregister: self._stop_event.set()
UnregisterStart ==
    /\ reg.un = "idle" /\ reg.hb # "off"
    /\ reg' = [reg EXCEPT !.stop = TRUE, !.un = "join"]
    /\ UNCHANGED <<jstate, need, exit_code, end_time, alloc, cache, tokens, workers,
                   uncommitted, ex, events, mgr, tl, submit_time, rm>>

\* unregister: self._heartbeat_thread.join(timeout=5) returns, because the
\* thread has ended or, with the thread inside a Redis command of
\* update_heartbeat, because the 5 seconds are over (a warning is logged)
UnregisterJoin ==
    /\ reg.un = "join" /\ reg.hb \in {"stopped", "hset", "expire"}
    /\ reg' = [reg EXCEPT !.un = "delete"]
    /\ UNCHANGED <<jstate, need, exit_code, end_time, alloc, cache, tokens, workers,
                   uncommitted, ex, events, mgr, tl, submit_time, rm>>

\* unregister: self._repo.delete(self.worker_id), and the return
UnregisterDelete ==
    /\ reg.un = "delete"
    /\ reg' = [reg EXCEPT !.key = {}, !.ttl = FALSE, !.un = "returned"]
    /\ UNCHANGED <<jstate, need, exit_code, end_time, alloc, cache, tokens, workers,
                   uncommitted, ex, events, mgr, tl, submit_time, rm>>

RegistryNext ==
    \/ RegistryRegister
    \/ StartHeartbeat
    \/ HeartbeatCheck
    \/ \E ok \in BOOLEAN : HeartbeatHset(ok)
    \/ \E ok \in BOOLEAN : HeartbeatExpire(ok)
    \/ HeartbeatWait
    \/ UpdateStatus
    \/ KeyExpires
    \/ UnregisterStart
    \/ UnregisterJoin
    \/ UnregisterDelete

SpecRegistry == Init /\ [][RegistryNext]_vars

\* ------------------------------------------- in-memory CPU accounting
\* ResourceTracker (worker/resource_tracker.py) and the two ResourceManager
\* classes (worker/services/resource_manager.py, shared/resource_manager.py)
\* share one structure: a threading.Lock, which is not reentrant, a counter,
\* and can_allocate / allocate / release that each take the lock with `with`.

\* __init__ -> _load_current_usage: _used_cpus = SUM(allocated_cpus) of the
\* unreleased rows found at construction
LoadCurrentUsage(used) == [IdleRm EXCEPT !.used = used]

LockInit ==
    /\ jstate = [j \in Jobs |-> "NONE"]
    /\ need = [j \in Jobs |-> 0]
    /\ exit_code = [j \in Jobs |-> ""]
    /\ end_time = [j \in Jobs |-> FALSE]
    /\ alloc = [j \in Jobs |-> NoAlloc]
    /\ cache = <<0>>
    /\ tokens = [j \in Jobs |-> 0]
    /\ workers = {}
    /\ uncommitted = {}
    /\ ex = [e \in Execs |-> IdleExec]
    /\ events = 0
    /\ mgr = IdleMgr
    /\ tl = IdleTl
    /\ submit_time = [j \in Jobs |-> 0]
    /\ reg = IdleReg
    /\ \E used \in {0, SmallNeed, MaxNeed, TOTAL_CPUS} : rm = LoadCurrentUsage(used)

\* threading.Lock.acquire as `with self._lock:` performs it: the caller
\* proceeds only when no thread holds the lock, itself included
LockFree == rm.owner = 0

\* a thread calls can_allocate(cpus) from outside the class
\* (ResourceScheduler.schedule_pending_jobs) and reaches its `with self._lock`
CanAllocateCall(t, cpus) ==
    /\ rm.pc[t] = "idle"
    /\ rm' = [rm EXCEPT !.pc[t] = "can_acquire", !.cpus[t] = cpus,
                        !.back[t] = "caller", !.ret[t] = "none"]
    /\ UNCHANGED <<jstate, need, exit_code, end_time, alloc, cache, tokens, workers,
                   uncommitted, ex, events, mgr, tl, submit_time, reg>>

\* can_allocate: `with self._lock:` entered
CanAllocateAcquire(t) ==
    /\ rm.pc[t] = "can_acquire"
    /\ LockFree
    /\ rm' = [rm EXCEPT !.owner = t, !.pc[t] = "can_hold"]
    /\ UNCHANGED <<jstate, need, exit_code, end_time, alloc, cache, tokens, workers,
                   uncommitted, ex, events, mgr, tl, submit_time, reg>>

\* can_allocate: return (used + cpus) <= total, the `with` block left and the
\* lock released.  Back in allocate, the caller goes on to its own return:
\* False, or used += cpus and True, and the end of its `with` block.
CanAllocateReturn(t) ==
    /\ rm.pc[t] = "can_hold"
    /\ LET fits == (rm.used + rm.cpus[t]) <= TOTAL_CPUS
       IN  rm' = [rm EXCEPT !.owner = 0, !.pc[t] = "idle",
                            !.ret[t] = IF fits THEN "True" ELSE "False",
                            !.used = IF rm.back[t] = "allocate" /\ fits
                                     THEN @ + rm.cpus[t] ELSE @]
    /\ UNCHANGED <<jstate, need, exit_code, end_time, alloc, cache, tokens, workers,
                   uncommitted, ex, events, mgr, tl, submit_time, reg>>

\* a thread calls allocate(cpus) and reaches its `with self._lock`
AllocateCall(t, cpus) ==
    /\ rm.pc[t] = "idle"
    /\ rm' = [rm EXCEPT !.pc[t] = "alloc_acquire", !.cpus[t] = cpus,
                        !.back[t] = "caller", !.ret[t] = "none"]
    /\ UNCHANGED <<jstate, need, exit_code, end_time, alloc, cache, tokens, workers,
                   uncommitted, ex, events, mgr, tl, submit_time, reg>>

\* allocate: `with self._lock:` entered, then `self.can_allocate(cpus)` called
\* with the lock held, up to that method's own `with self._lock`
AllocateAcquire(t) ==
    /\ rm.pc[t] = "alloc_acquire"
    /\ LockFree
    /\ rm' = [rm EXCEPT !.owner = t, !.pc[t] = "can_acquire", !.back[t] = "allocate"]
    /\ UNCHANGED <<jstate, need, exit_code, end_time, alloc, cache, tokens, workers,
                   uncommitted, ex, events, mgr, tl, submit_time, reg>>

\* a thread calls release(cpus) and reaches its `with self._lock`
ReleaseCall(t, cpus) ==
    /\ rm.pc[t] = "idle"
    /\ rm' = [rm EXCEPT !.pc[t] = "release_acquire", !.cpus[t] = cpus,
                        !.back[t] = "caller", !.ret[t] = "none"]
    /\ UNCHANGED <<jstate, need, exit_code, end_time, alloc, cache, tokens, workers,
                   uncommitted, ex, events, mgr, tl, submit_time, reg>>

\* release: `with self._lock:` entered
ReleaseAcquire(t) ==
    /\ rm.pc[t] = "release_acquire"
    /\ LockFree
    /\ rm' = [rm EXCEPT !.owner = t, !.pc[t] = "release_hold"]
    /\ UNCHANGED <<jstate, need, exit_code, end_time, alloc, cache, tokens, workers,
                   uncommitted, ex, events, mgr, tl, submit_time, reg>>

\* release: used = max(0, used - cpus), the `with` block left, return None
ReleaseReturn(t) ==
    /\ rm.pc[t] = "release_hold"
    /\ rm' = [rm EXCEPT !.owner = 0, !.pc[t] = "idle", !.ret[t] = "None",
                        !.used = IF @ - rm.cpus[t] > 0 THEN @ - rm.cpus[t] ELSE 0]
    /\ UNCHANGED <<jstate, need, exit_code, end_time, alloc, cache, tokens, workers,
                   uncommitted, ex, events, mgr, tl, submit_time, reg>>

LockNext ==
    \/ \E t \in Threads, cpus \in CpuNeeds : CanAllocateCall(t, cpus)
    \/ \E t \in Threads : CanAllocateAcquire(t)
    \/ \E t \in Threads : CanAllocateReturn(t)
    \/ \E t \in Threads, cpus \in CpuNeeds : AllocateCall(t, cpus)
    \/ \E t \in Threads : AllocateAcquire(t)
    \/ \E t \in Threads, cpus \in CpuNeeds : ReleaseCall(t, cpus)
    \/ \E t \in Threads : ReleaseAcquire(t)
    \/ \E t \in Threads : ReleaseReturn(t)

SpecLock == LockInit /\ [][LockNext]_vars

\* ------------------------------------------------------------- time limit
\* the time_limit strings of a submission, as parse_time_limit splits them:
\* the number before '-' (NoInt: no '-') and the ':'-separated numbers.  A
\* string of digits only is days = NoInt with a single part.
TimeStrings ==
    [days : {NoInt} \cup (0..1),
     parts : UNION {[1..n -> 0..MaxTimePart] : n \in 1..3}]

\* parse_time_limit: minutes
ParseTimeLimit(str) ==
    IF str.days = NoInt /\ Len(str.parts) = 1
    THEN str.parts[1]
    ELSE LET days == IF str.days = NoInt THEN 0 ELSE str.days
             hours == str.parts[1]
             mins == IF Len(str.parts) >= 2 THEN str.parts[2] ELSE 0
         IN days * 24 * 60 + hours * 60 + mins

\* _run: timeout = job.time_limit * 60 if job.time_limit else None
WaitTimeout(time_limit) == IF time_limit # 0 THEN time_limit * 60 ELSE NoInt

\* a job is submitted with a time_limit string and a script that exits or
\* never does, and that dies of SIGTERM or ignores it
TimeLimitInit ==
    /\ jstate = [j \in Jobs |-> "NONE"]
    /\ need = [j \in Jobs |-> 0]
    /\ exit_code = [j \in Jobs |-> ""]
    /\ end_time = [j \in Jobs |-> FALSE]
    /\ alloc = [j \in Jobs |-> NoAlloc]
    /\ cache = <<0>>
    /\ tokens = [j \in Jobs |-> 0]
    /\ workers = {}
    /\ uncommitted = {}
    /\ ex = [e \in Execs |-> IdleExec]
    /\ events = 0
    /\ mgr = IdleMgr
    /\ submit_time = [j \in Jobs |-> 0]
    /\ reg = IdleReg
    /\ rm = IdleRm
    /\ \E str \in TimeStrings, never \in BOOLEAN, ignores \in BOOLEAN :
          tl = [IdleTl EXCEPT !.days = str.days, !.parts = str.parts, !.never_exits = never,
                              !.ignores_term = ignores]

\* JobService.submit_job: time_limit = job_spec.get_time_limit_minutes()
SubmitTimeLimit ==
    /\ tl.pc = "idle"
    /\ tl' = [tl EXCEPT !.pc = "submitted",
                        !.time_limit = ParseTimeLimit([days |-> tl.days, parts |-> tl.parts])]
    /\ UNCHANGED <<jstate, need, exit_code, end_time, alloc, cache, tokens, workers,
                   uncommitted, ex, events, mgr, submit_time, reg, rm>>

\* the job is reserved and promoted, and _run goes up to
\* process.wait(timeout=timeout)
RunWait ==
    /\ tl.pc = "submitted"
    /\ tl' = [tl EXCEPT !.pc = "wait", !.timeout = WaitTimeout(tl.time_limit),
                        !.state = "RUNNING",
                        !.alloc = UpdateAllocationToAllocated(ReservedAllocation(SmallNeed))]
    /\ UNCHANGED <<jstate, need, exit_code, end_time, alloc, cache, tokens, workers,
                   uncommitted, ex, events, mgr, submit_time, reg, rm>>

\* process.wait returns the exit code of a script that exits
ScriptExits(code) ==
    /\ tl.pc = "wait" /\ ~tl.never_exits
    /\ tl' = [tl EXCEPT !.pc = "returned", !.exit = code]
    /\ UNCHANGED <<jstate, need, exit_code, end_time, alloc, cache, tokens, workers,
                   uncommitted, ex, events, mgr, submit_time, reg, rm>>

\* subprocess.TimeoutExpired after timeout seconds: kill_process_tree sends
\* SIGTERM to the process group of the child
WaitExpires ==
    /\ tl.pc = "wait" /\ tl.timeout # NoInt
    /\ tl' = [tl EXCEPT !.pc = "grace", !.term = TRUE]
    /\ UNCHANGED <<jstate, need, exit_code, end_time, alloc, cache, tokens, workers,
                   uncommitted, ex, events, mgr, submit_time, reg, rm>>

\* kill_process_tree after SIGTERM: os.kill(pid, 0) is polled for timeout
\* (5) seconds; SIGKILL goes to the process group when the pid still exists
\* at the end
KillAfterGrace(exists) == exists

\* the rest of kill_process_tree and of the except branch: exit_code = -1.
\* A child that ignores SIGTERM exists at the end of the grace period. A
\* child that died of it exists as long as nobody has reaped it: _run does
\* not wait for it again, the ProcessMonitor thread may poll() it.
GraceEnds(exists) ==
    /\ tl.pc = "grace"
    /\ tl.ignores_term => exists
    /\ tl' = [tl EXCEPT !.pc = "returned", !.kill = KillAfterGrace(exists), !.exit = "-1"]
    /\ UNCHANGED <<jstate, need, exit_code, end_time, alloc, cache, tokens, workers,
                   uncommitted, ex, events, mgr, submit_time, reg, rm>>

\* _cleanup after _run has returned: _release_resources, _update_completion
TimeLimitCleanup ==
    /\ tl.pc = "returned"
    /\ tl' = [tl EXCEPT !.pc = "done",
                        !.alloc = ReleaseAllocation(tl.alloc),
                        !.state = UpdateJobCompletion(tl.exit),
                        !.exit_code = ExitCodeStr(tl.exit)]
    /\ UNCHANGED <<jstate, need, exit_code, end_time, alloc, cache, tokens, workers,
                   uncommitted, ex, events, mgr, submit_time, reg, rm>>

TimeLimitNext ==
    \/ SubmitTimeLimit
    \/ RunWait
    \/ \E code \in {"0", "1"} : ScriptExits(code)
    \/ WaitExpires
    \/ \E exists \in BOOLEAN : GraceEnds(exists)
    \/ TimeLimitCleanup

SpecTimeLimit == TimeLimitInit /\ [][TimeLimitNext]_vars /\ WF_vars(TimeLimitNext)

\* ================================================================ properties

\* the step is a scheduler tick that reserves at least one job
ReservationStep == uncommitted = {} /\ uncommitted' # {}

\* the step is the return of the execute() call in slot e
ReturnStep(e) == ex[e].pc # "idle" /\ ex'[e].pc = "idle"

\* SUM(allocated_cpus) over the rows whose status is RESERVED or ALLOCATED
NotReleasedCpus ==
    SumOver({j \in Jobs : alloc[j].status \in {"RESERVED", "ALLOCATED"}},
            [j \in Jobs |-> alloc[j].cpus])

\* SUM(allocated_cpus) over the rows whose status is ALLOCATED
AllocatedStatusCpus ==
    SumOver({j \in Jobs : alloc[j].status = "ALLOCATED"}, [j \in Jobs |-> alloc[j].cpus])

\* the step recomputes the counter from the rows: a sync, or a tick that
\* finds the key absent (and reserves nothing on top of the recomputed value)
ResyncStep ==
    \/ SyncFromDb
    \/ /\ cache = CacheAbsent /\ cache' # CacheAbsent
       /\ ex' = ex /\ alloc' = alloc /\ uncommitted' = uncommitted

\* C1: terminal job states are absorbing: once a job is COMPLETED, FAILED or
\* CANCELLED no step of the executor, the API cancel, a cleanup strategy or a
\* recovery strategy changes its state.
C1_TerminalAbsorbing ==
    [][\A j \in Jobs : jstate[j] \in Terminal => jstate'[j] = jstate[j]]_vars

\* C2: the status of an allocation row only moves forward along
\* RESERVED, ALLOCATED, RELEASED: a row starts RESERVED, never leaves
\* RELEASED and never goes from ALLOCATED back to RESERVED.
C2_StatusTrajectory ==
    [][\A j \in Jobs :
          /\ alloc[j].status = "NONE" => alloc'[j].status \in {"NONE", "RESERVED"}
          /\ alloc[j].status = "RESERVED" => alloc'[j].status # "NONE"
          /\ alloc[j].status = "ALLOCATED" => alloc'[j].status \in {"ALLOCATED", "RELEASED"}
          /\ alloc[j].status = "RELEASED" => alloc'[j].status = "RELEASED"]_vars

\* C3: of two execute() calls for the same job at most one promotes the
\* allocation and runs the script: never have two calls of one job both
\* promoted the row and obtained an exit code from the script.
C3_AtMostOneExecution ==
    \A e, f \in Execs :
        (e # f /\ ex[e].job = ex[f].job /\ ex[e].promoted /\ ex[e].exit # None)
            => ~(ex[f].promoted /\ ex[f].exit # None)

\* C4: when an execute() call that promoted the allocation returns, the
\* allocation is RELEASED and the call has taken off the cache exactly what
\* it added to it.
C4_ReleaseOnEveryExit ==
    [][\A e \in Execs :
          (ReturnStep(e) /\ ex[e].promoted)
              => /\ alloc'[ex[e].job].status = "RELEASED"
                 /\ ex[e].removed = ex[e].added]_vars

\* C5: the scheduler never over-commits: right after a tick's reservations
\* the CPUs of all rows that are not RELEASED, the new ones included, are at
\* most the total_cpus() read in that tick.
C5_NoOverCommit ==
    [][ReservationStep
          => NotReleasedCpus + SumOver(uncommitted', need) <= TotalCpusDynamic]_vars

C7_ReservationLeavesCache ==
    [][ReservationStep => cache' = cache]_vars

\* C8: right after the counter is recomputed from the rows it equals the
\* sum of allocated_cpus over the rows whose status is ALLOCATED.
C8_SyncCountsAllocated ==
    [][ResyncStep => (cache' # CacheAbsent /\ cache'[1] = AllocatedStatusCpus')]_vars

\* nothing is left to do for the daemon and the executors
HappyQuiescent ==
    /\ uncommitted = {}
    /\ \A j \in Jobs : tokens[j] = 0
    /\ \A e \in Execs : ex[e].pc = "idle"
    /\ StaleAllocations = {}
    /\ FirstFit(1, AvailableCpus) = {}

\* C9: happy path: with one 4-CPU worker, a zero counter and job 1 the only
\* job submitted (SmallNeed CPUs, script exits 0), once the daemon and the
\* executors have nothing left to do the job is COMPLETED with exit_code
\* "0:0", its allocation is RELEASED and the counter is 0.
C9_HappyPath ==
    (jstate[1] # "NONE" /\ (\A j \in Jobs \ {1} : jstate[j] = "NONE") /\ HappyQuiescent)
        => /\ jstate[1] = "COMPLETED"
           /\ exit_code[1] = "0:0"
           /\ alloc[1].status = "RELEASED"
           /\ cache = <<0>>

C11_NoWorkersNoDispatch ==
    [][ReservationStep => workers # {}]_vars

C13_CancelDuringRun ==
    [][\A e \in Execs :
          LET j == ex[e].job
          IN /\ (ex[e].pc = "wait" /\ jstate[j] = "RUNNING" /\ jstate'[j] = "CANCELLED")
                    => ex'[e].signalled
             /\ (ReturnStep(e) /\ ex[e].exit # None /\ jstate[j] = "CANCELLED")
                    => /\ jstate'[j] = "CANCELLED"
                       /\ exit_code'[j] = "-1:15"
                       /\ end_time'[j]
                       /\ alloc'[j].status = "RELEASED"]_vars

\* C14: a job cancelled after its reservation and before its promotion is
\* not promoted: the PROMOTE step of an execute() call whose job is
\* CANCELLED does not set the allocation ALLOCATED, and when a call that
\* never promoted returns for a CANCELLED job, the job is still CANCELLED
\* and its allocation is RELEASED.
C14_CancelBeforePromote ==
    [][\A e \in Execs :
          LET j == ex[e].job
          IN /\ (ex[e].pc = "promote" /\ ex'[e].pc # "promote" /\ jstate[j] = "CANCELLED")
                    => (~ex'[e].promoted /\ alloc'[j].status # "ALLOCATED")
             /\ (ReturnStep(e) /\ ~ex[e].promoted /\ jstate[j] = "CANCELLED"
                    /\ alloc[j].status # "NONE")
                    => (jstate'[j] = "CANCELLED" /\ alloc'[j].status = "RELEASED")]_vars

\* C15: every job whose state is COMPLETED, FAILED or CANCELLED has a
\* non-empty exit_code and an end_time.
C15_TerminalHasExitCodeAndEndTime ==
    \A j \in Jobs : jstate[j] \in Terminal => (exit_code[j] # "" /\ end_time[j])

\* a job cancelled through the API next to a job its executor finished
C15_Witness ==
    /\ \E j \in Jobs : jstate[j] = "CANCELLED" /\ exit_code[j] = "-1:15"
    /\ \E j \in Jobs : jstate[j] \in {"COMPLETED", "FAILED"} /\ exit_code[j] \in {"0:0", "1:0"}

\* C16: every allocation whose status is RELEASED has a released_time.
C16_ReleasedHasReleasedTime ==
    \A j \in Jobs : alloc[j].status = "RELEASED" => alloc[j].released_time

\* a row released by the executor of a finished job, with its time set
C16_Witness ==
    \E j \in Jobs : /\ alloc[j].status = "RELEASED" /\ alloc[j].released_time
                     /\ ~alloc[j].released /\ jstate[j] \in Terminal

\* C17: for a job run by one executor the writes come in the order job
\* PENDING -> RUNNING, allocation RESERVED -> ALLOCATED, spawn, terminal
\* state, allocation ALLOCATED -> RELEASED: the promotion finds the job
\* RUNNING, the spawn finds the allocation ALLOCATED, the terminal write
\* finds it still ALLOCATED, and the release finds the job terminal.
C17_WriteOrder ==
    [][\A e \in Execs :
          LET j == ex[e].job
          IN /\ (ex[e].pc = "promote" /\ ex'[e].pc = "prepare") => jstate[j] = "RUNNING"
             /\ (ex[e].pc = "run" /\ ex'[e].pc = "wait") => alloc[j].status = "ALLOCATED"
             /\ (ex[e].pc = "record" /\ ex'[e].pc = "idle") => alloc[j].status = "ALLOCATED"
             /\ (ex[e].promoted /\ alloc[j].status = "ALLOCATED"
                    /\ alloc'[j].status = "RELEASED") => jstate[j] \in Terminal]_vars

\* job j is RUNNING with a RESERVED allocation and no token, and no
\* execute() call holds it
TokenLost(j) ==
    /\ jstate[j] = "RUNNING" /\ alloc[j].status = "RESERVED"
    /\ tokens[j] = 0 /\ \A e \in Execs : ex[e].job # j

\* C18: an enqueue failure is repaired: a job that is RUNNING with a RESERVED
\* allocation and has no dispatch token eventually is FAILED with exit_code
\* "-3:0" and its allocation RELEASED.
C18_EnqueueFailureRepaired ==
    \A j \in Jobs :
        TokenLost(j) ~> (jstate[j] = "FAILED" /\ exit_code[j] = "-3:0"
                            /\ alloc[j].status = "RELEASED")

C20_StrategiesIndependent ==
    [][mgr'.failed # mgr.failed
         => /\ UNCHANGED <<jstate, exit_code, end_time, alloc>>
            /\ mgr'.failed \subseteq mgr'.notified
            /\ mgr'.todo = Tail(mgr.todo)]_vars

\* job j is reserved and dispatched, and no execute() call has taken it yet:
\* no process was spawned for it and no pid is recorded on its row
NotYetSpawned(j) ==
    /\ jstate[j] = "RUNNING" /\ alloc[j].status = "RESERVED"
    /\ tokens[j] > 0 /\ \A e \in Execs : ex[e].job # j

\* C21: worker start-up recovery fails a RUNNING job with "-999:0" only when
\* the pid recorded for it is gone: a job that is reserved and dispatched but
\* not yet spawned is not failed by it and keeps its allocation.
C21_OrphanOnlyIfPidGone ==
    [][\A j \in Jobs :
          NotYetSpawned(j) => /\ exit_code'[j] # "-999:0"
                              /\ (alloc'[j] # alloc[j] => jstate'[j] # "FAILED"
                                     \/ exit_code'[j] # "-999:0")]_vars

\* C22: every total-capacity read returns the sum of the cpus fields of the
\* worker records present, 0 when there is none, and the scheduler's read
\* agrees with the registry's and the resource manager's.
C22_TotalCpusIsSumOfWorkers ==
    LET sum == Cardinality(workers) * WorkerCpus
    IN /\ GetTotalCpus = sum
       /\ ResourceManagerTotalCpus = sum
       /\ TotalCpusDynamic = ResourceManagerTotalCpus

\* C23: every availability figure equals max(0, total - allocated) and so is
\* never negative.
C23_AvailableIsClamped ==
    /\ GetAvailableCpus >= 0
    /\ ResourceManagerStatsAvailable
           = ClampAtZero(ResourceManagerTotalCpus - AllocatedCpusCached)
    /\ SchedulerStatsAvailable = ClampAtZero(TotalCpusDynamic - AllocatedCpusCached)
    /\ AvailableCpus = ClampAtZero(TotalCpusDynamic - AllocatedCpusCached)

\* C24: when an execute() call in which a stage after LOAD raised returns,
\* its job is FAILED with an exit code and an end time and the allocation of
\* the job is RELEASED.
C24_FailureRecordedAndReleased ==
    [][\A e \in Execs :
          (ReturnStep(e) /\ ex[e].err)
              => LET j == ex[e].job
                 IN /\ jstate'[j] = "FAILED"
                    /\ exit_code'[j] # ""
                    /\ end_time'[j]
                    /\ alloc'[j].status = "RELEASED"]_vars

\* C25: the wait on the child process has a finite deadline for every job,
\* whatever its time limit.
C25_WaitHasDeadline == tl.pc = "wait" => tl.timeout # NoInt

\* C26: a stale-reservation cleanup over the rows older than the max age
\* changes exactly the RESERVED ones among them whose job is RUNNING: the job
\* becomes FAILED with exit_code "-3:0" and an end time, the row RELEASED with
\* a released time; every other job and row and the counter stay as they are.
C26_StaleReservationExact ==
    [][\A old \in SUBSET Jobs :
          StaleReservationCleanup(old)
              => /\ cache' = cache
                 /\ \A j \in Jobs :
                       IF j \in old /\ alloc[j].status = "RESERVED" /\ jstate[j] = "RUNNING"
                       THEN /\ jstate'[j] = "FAILED" /\ exit_code'[j] = "-3:0"
                            /\ end_time'[j]
                            /\ alloc'[j].status = "RELEASED" /\ alloc'[j].released_time
                            /\ alloc'[j].cpus = alloc[j].cpus
                       ELSE /\ jstate'[j] = jstate[j] /\ exit_code'[j] = exit_code[j]
                            /\ end_time'[j] = end_time[j] /\ alloc'[j] = alloc[j]]_vars

\* the cleanup has failed job i and released its row while job j, promoted
\* to ALLOCATED, still runs; the counter still holds both reservations
C26_Witness ==
    \E i, j \in Jobs :
        /\ jstate[i] = "FAILED" /\ exit_code[i] = "-3:0" /\ alloc[i].status = "RELEASED"
        /\ jstate[j] = "RUNNING" /\ alloc[j].status = "ALLOCATED"
        /\ CacheValue >= need[i] + need[j]

\* the CPUs of the rows that the step changes and that were ALLOCATED before it
AllocatedCpusReleasedByStep ==
    SumOver({j \in Jobs : alloc'[j] # alloc[j] /\ alloc[j].status = "ALLOCATED"},
            [j \in Jobs |-> alloc[j].cpus])

\* C27: when CompletedJobCleanup, StuckJobCleanup or release_completed
\* releases allocations, the counter goes down by the CPUs of exactly those
\* released rows whose status was ALLOCATED; RESERVED rows do not count.
C27_DecrementIffAllocated ==
    [][(CompletedJobCleanup \/ ReleaseCompleted \/ \E old \in SUBSET Jobs : StuckJobCleanup(old))
          => cache' = <<CacheValue - AllocatedCpusReleasedByStep>>]_vars

\* the position of strategy s in the results of the call (0: not executed)
ExecutedAt(s) ==
    IF \E i \in 1..Len(mgr.results) : mgr.results[i] = s
    THEN CHOOSE i \in 1..Len(mgr.results) : mgr.results[i] = s
    ELSE 0

\* the execute_due_strategies call has returned
CallReturned == mgr.passes > 0 /\ mgr.todo = <<>>

\* C28: when a call of execute_due_strategies has returned, the strategies
\* it executed are exactly the registered strategies that were due, each
\* once, whatever the depends_on declarations are.
C28_DueExecutedOnce ==
    CallReturned =>
        /\ \A s \in mgr.due : Cardinality({i \in 1..Len(mgr.results) : mgr.results[i] = s}) = 1
        /\ \A i \in 1..Len(mgr.results) : mgr.results[i] \in mgr.due

\* the registered strategies that s names in depends_on
RegisteredDeps(s) == mgr.strategies[s].depends_on \cap DOMAIN mgr.strategies

RECURSIVE DepsWithin(_, _)
\* the strategies reached from the set S by at most n steps of depends_on
DepsWithin(S, n) ==
    IF n = 0 THEN S
    ELSE DepsWithin(S \cup UNION {RegisteredDeps(x) : x \in S}, n - 1)

\* the strategies s depends on, directly or transitively
TransitiveDeps(s) == DepsWithin(RegisteredDeps(s), Cardinality(DOMAIN mgr.strategies))

\* C29: a strategy runs after the strategies it declares in depends_on:
\* when S and a strategy D of S.depends_on are both executed in a call, D
\* is executed before S.
C29_DependencyFirst ==
    \A s, d \in DOMAIN mgr.strategies :
        (d \in mgr.strategies[s].depends_on /\ ExecutedAt(s) > 0 /\ ExecutedAt(d) > 0)
            => ExecutedAt(d) < ExecutedAt(s)

\* a call has returned in which S ran after its dependency D although S has
\* the smaller priority number and was registered first
C29_Witness ==
    /\ CallReturned
    /\ LET s == "completed_job_cleanup"
           d == "stuck_job_cleanup"
       IN /\ d \in mgr.strategies[s].depends_on
          /\ PriorityOf(s) < PriorityOf(d)
          /\ 0 < ExecutedAt(d) /\ ExecutedAt(d) < ExecutedAt(s)

\* C30 as stated: of two executed strategies neither of which depends,
\* directly or transitively, on the other, the one with the smaller priority
\* number is executed first.
C30_PriorityAmongIndependent ==
    \A x, y \in DOMAIN mgr.strategies :
        (/\ ExecutedAt(x) > 0 /\ ExecutedAt(y) > 0
         /\ x \notin TransitiveDeps(y) /\ y \notin TransitiveDeps(x)
         /\ PriorityOf(y) < PriorityOf(x))
            => ExecutedAt(y) < ExecutedAt(x)

\* C30 amended: the order is that of a topological sort that always takes,
\* among the strategies whose registered dependencies have all been taken,
\* the one with the smallest priority number: when X is executed before Y
\* although Y has the smaller priority number, Y declares a registered
\* dependency that is X, or is executed after X, or is not executed in the
\* call.
C30_PriorityAmongReady ==
    \A x, y \in DOMAIN mgr.strategies :
        (/\ ExecutedAt(x) > 0 /\ ExecutedAt(y) > 0
         /\ ExecutedAt(x) < ExecutedAt(y)
         /\ PriorityOf(y) < PriorityOf(x))
            => \E z \in RegisteredDeps(y) :
                  z = x \/ ExecutedAt(z) > ExecutedAt(x) \/ ExecutedAt(z) = 0

\* a call has returned in which X ran before Y, which has the smaller
\* priority number and does not depend on X: Y waited for a dependency that
\* has a larger priority number than X and ran after X
C30_Witness ==
    /\ CallReturned
    /\ \E x, y, z \in DOMAIN mgr.strategies :
          /\ 0 < ExecutedAt(x) /\ ExecutedAt(x) < ExecutedAt(z)
          /\ ExecutedAt(z) < ExecutedAt(y)
          /\ PriorityOf(y) < PriorityOf(x) /\ PriorityOf(x) < PriorityOf(z)
          /\ z \in RegisteredDeps(y) /\ x \notin TransitiveDeps(y)

\* C31: from the spawn of a job's process until the allocation is released
\* the row carries the pid of that process: while an execute() call waits for
\* the script it spawned and the row of the job is not released, the pid of
\* that call's process is the one on the row.
C31_PidOnRowWhileRunning ==
    \A e \in Execs :
        (/\ ex[e].pc = "wait"
         /\ alloc[ex[e].job].status \in {"RESERVED", "ALLOCATED"}
         /\ ~alloc[ex[e].job].released)
            => ex[e].pid_recorded

\* C32: every job that has been RUNNING has exactly one allocation row and
\* a job that was never scheduled has none: a job that is RUNNING after a step
\* has a row, a row is never removed, a row appears only in the step that
\* turns its job from PENDING to RUNNING, and that step finds no row of the
\* job (the insert never meets the unique job_id of an existing row).
C32_OneRowPerScheduledJob ==
    [][\A j \in Jobs :
          /\ jstate'[j] = "RUNNING" => alloc'[j].status # "NONE"
          /\ alloc[j].status # "NONE" => alloc'[j].status # "NONE"
          /\ (alloc[j].status = "NONE" /\ alloc'[j].status # "NONE")
                => (jstate[j] = "PENDING" /\ jstate'[j] = "RUNNING")
          /\ (jstate[j] # "RUNNING" /\ jstate'[j] = "RUNNING")
                => alloc[j].status = "NONE"]_vars

\* a job cancelled while its executor runs it keeps its promoted row, next
\* to a submitted job that no tick has reserved and that has no row
C32_Witness ==
    \E i, j \in Jobs :
        /\ jstate[i] = "CANCELLED" /\ alloc[i].status = "ALLOCATED"
        /\ \E e \in Execs : ex[e].job = i /\ ex[e].promoted
        /\ jstate[j] = "PENDING" /\ alloc[j].status = "NONE" /\ tokens[j] = 0

\* C33: a dispatch token for a job that is not RUNNING does nothing: an
\* execute() call that found its job PENDING, COMPLETED, FAILED or CANCELLED
\* returns with the job row, the allocation row and the counter as they were
\* and without having spawned a process.
C33_StaleTokenDoesNothing ==
    [][\A e \in Execs :
          (ReturnStep(e) /\ ~ex[e].promoted)
              => /\ UNCHANGED <<jstate, exit_code, end_time, alloc, cache>>
                 /\ ex[e].exit = None /\ ex[e].added = 0]_vars

\* C34: when the script of a job is still running when its time limit has
\* passed, the executor eventually has sent SIGTERM to its process group,
\* and SIGKILL if the child ignored SIGTERM, and the job ends FAILED with
\* exit_code "-1:0" and its allocation RELEASED.
C34_TimeLimitEnforced ==
    (tl.pc = "wait" /\ tl.never_exits)
        ~> (/\ tl.pc = "done" /\ tl.term /\ (tl.ignores_term => tl.kill)
            /\ tl.state = "FAILED" /\ tl.exit_code = "-1:0"
            /\ tl.alloc.status = "RELEASED")

\* C35: PENDING jobs with the same submit_time are considered in ascending
\* id: a tick reserves exactly the jobs that first fit reserves when it takes
\* the PENDING jobs by submit_time and, among equal submit_times, by id.
C35_TiesByAscendingId ==
    [][ReservationStep => uncommitted' = FirstFit(1, AvailableCpus)]_vars

\* C36: after unregister() has returned, the worker:<id> key of the worker
\* does not exist, whatever its heartbeat thread was doing.
C36_NoKeyAfterUnregister == reg.un = "returned" => reg.key = {}

\* C39: a worker that runs and heartbeats is counted with its cpus: a
\* successful heartbeat of a worker that has not unregistered leaves a key
\* from which the total includes the worker's cpus, and no heartbeat or
\* status update leaves a key without the cpus field or without a TTL.
C39_HeartbeatKeepsWorkerCounted ==
    [][/\ (HeartbeatExpire(TRUE) /\ reg.un = "idle")
              => (RegistryTotalCpus' = WorkerCpus /\ reg'.ttl)
       /\ (HeartbeatExpire(TRUE) \/ UpdateStatus)
              => (reg'.key # {} => ("cpus" \in reg'.key /\ reg'.ttl))]_vars

\* C37: the increments and decrements of the counter are balanced per job,
\* so the counter is never negative: in every reachable state the key
\* resource:allocated_cpus, when present, holds a value >= 0.
C37_CounterNeverNegative == CacheValue >= 0

\* C38: the two representations of an allocation's state agree: in every
\* reachable state a job's allocation row has released = True exactly when
\* its status is RELEASED.
C38_ReleasedFlagAgreesWithStatus ==
    \A j \in Jobs :
        alloc[j].status # "NONE" => (alloc[j].released <=> alloc[j].status = "RELEASED")

\* C40: the in-memory CPU accounting makes progress and stays in bounds: no
\* thread inside allocate() waits for the lock that it holds itself, a
\* returned allocate() gave True or False, and 0 <= used <= total.
C40_AllocateReturnsInBounds ==
    /\ \A t \in Threads :
           ~(rm.pc[t] = "can_acquire" /\ rm.back[t] = "allocate" /\ rm.owner = t)
    /\ rm.used >= 0
    /\ rm.used <= TOTAL_CPUS

====
